---------------------------- MODULE Spec2Model ----------------------------
(***************************************************************************)
(* A model of the jetpack utility library:                                 *)
(*   - jetpack.errors            GenericErrors (constructor, properties)   *)
(*   - jetpack.errors.exception_handlers   the three handlers and          *)
(*                               get_exception_handlers                    *)
(*   - jetpack.log_config        read_configuration, configure_logger      *)
(* The components share no state, so each has a specification of its own   *)
(* over the same variables (SpecErrors, SpecHandlers, SpecRegistry,        *)
(* SpecLogger); Spec is their interleaving.                                *)
(*                                                                         *)
(* Python values: a str-or-None value is the record [t, v] with t "none"   *)
(* or "str"; an argument left out of a call has t "omitted".  Strings are  *)
(* TLA+ strings, concatenated with \o as f-strings concatenate.            *)
(***************************************************************************)
EXTENDS Integers, Sequences, FiniteSets, TLC

VARIABLES
    \* jetpack.errors: one GenericErrors instance and what was done to it
    err,          \* the instance: _ec, _message, _status_code, args
    ctorArgs,     \* the arguments of the constructor call that built it
    stored,       \* the message last supplied (constructor or setter)
    lastOp,       \* the last operation on the instance
    reads,        \* the values the message property returned since then
    \* jetpack.errors.exception_handlers: handler invocations
    run,          \* the last handler invocation
    genericLog,   \* every <<exception, response>> of the generic handler
    \* get_exception_handlers
    gehArgs,      \* the arguments of the last call
    handlers,     \* the function's local table, as it was when it ended
    gehResult,    \* what the call returned
    \* jetpack.log_config
    root,         \* the root logger: level, handlers
    loggerLevel,  \* the level of each named logger
    dirs,         \* whether the logs directory exists
    calls,        \* configure_logger calls started so far
    pc,           \* per thread: where its configure_logger call is
    conf,         \* per thread: its call's number and the settings it reads
    ret,          \* the last call that ended: how, and what it had read
    overlapped,   \* whether two calls have been in progress at once
    \* jetpack.config
    pathEnv,      \* the input the last _PathConf() was built from
    pathConf,     \* the last _PathConf(): how it ended, and its fields
    \* jetpack.responses
    ambient,      \* the correlation_id context variable
    clock,        \* the current instant, in seconds
    meta,         \* the last RequestMeta built, its arguments and context
    envelope      \* the last response envelope built, and its arguments

errVars == <<err, ctorArgs, stored, lastOp, reads>>
hdlVars == <<run, genericLog>>
regVars == <<gehArgs, handlers, gehResult>>
logVars == <<root, loggerLevel, dirs, calls, pc, conf, ret, overlapped>>
cfgVars == <<pathEnv, pathConf>>
metaVars == <<ambient, clock, meta, envelope>>
vars == <<err, ctorArgs, stored, lastOp, reads, run, genericLog,
          gehArgs, handlers, gehResult,
          root, loggerLevel, dirs, calls, pc, conf, ret, overlapped,
          pathEnv, pathConf, ambient, clock, meta, envelope>>

----------------------------------------------------------------------------
(* Python values *)

PyNone == [t |-> "none", v |-> ""]
PyStr(s) == [t |-> "str", v |-> s]
Omitted == [t |-> "omitted", v |-> ""]
PyInt(n) == [t |-> "int", n |-> n]
OmittedInt == [t |-> "omitted", n |-> 0]

\* bool(x) of a str-or-None value: None and "" are falsy
Truthy(x) == x.t = "str" /\ x.v # ""

\* str(x), as an f-string field formats it: None is the text "None"
Fmt(x) == IF x.t = "none" THEN "None" ELSE x.v

----------------------------------------------------------------------------
(* jetpack.errors: GenericErrors *)

DefaultMessage == "An error has occurred. Please contact support."
DefaultStatusCode == 500

\* the inputs the model draws from
MessageValues == {PyNone, PyStr(""), PyStr("m")}
EcValues == {PyNone, PyStr(""), PyStr("E1")}
StatusValues == {400, 404}

\* a parameter's value: the argument, or the default when it is left out
ArgOr(a, default) == IF a.t = "omitted" THEN default ELSE a
IntArgIgnored(a, default) == default
IntArgOr(a, default) == IF a.t = "omitted" THEN default ELSE a.n

\* the message the constructor stores:  f"{ec}: {message}" if ec else message
RenderedAnyEc(ec, message) ==
    IF ec.t # "none" THEN PyStr(Fmt(ec) \o ": " \o Fmt(message)) ELSE message
Rendered(ec, message) ==
    IF Truthy(ec) THEN PyStr(Fmt(ec) \o ": " \o Fmt(message)) ELSE message

\* __init__, its parameters already defaulted; args is what super().__init__
\* received, the one-element tuple (self.message,)
GenericErrorsInit(message, ec, status_code) ==
    LET m == Rendered(ec, message)
    IN  [_ec |-> ec, _message |-> m, _status_code |-> status_code,
         args |-> <<m>>]

\* the property getters
MessageProp(e) == e._message
EcProp(e) == e._ec
StatusCodeProp(e) == e._status_code

\* str(e): BaseException.__str__ of a one-element args is str(args[0])
StrOf(e) == Fmt(e.args[1])

\* the property setters
SetStatusCodeOf(e, value) == [e EXCEPT !._status_code = value]
SetMessageRendering(e, value) == [e EXCEPT !._message = Rendered(e._ec, value)]
SetMessageAndArgs(e, value) ==
    [e EXCEPT !._message = value, !.args = <<value>>]
SetMessageOf(e, value) == [e EXCEPT !._message = value]
SetEcRecomputing(e, value) ==
    [e EXCEPT !._ec = value, !._message = Rendered(value, e._message)]
SetEcOf(e, value) == [e EXCEPT !._ec = value]

\* reads of the message property recorded after one mutation
MaxReads == 2

Mutation(op, val, num) == [op |-> op, val |-> val, num |-> num]

InitErr ==
    /\ err = GenericErrorsInit(PyStr(DefaultMessage), PyNone, DefaultStatusCode)
    /\ ctorArgs = [message |-> Omitted, ec |-> Omitted, status_code |-> OmittedInt]
    /\ stored = [value |-> PyStr(DefaultMessage), bySetter |-> FALSE]
    /\ lastOp = Mutation("init", PyNone, 0)
    /\ reads = <<>>

\* error = GenericErrors(message=..., ec=..., status_code=...), any argument
\* possibly left out
New(message, ec, status_code) ==
    /\ err' = GenericErrorsInit(ArgOr(message, PyStr(DefaultMessage)),
                                ArgOr(ec, PyNone),
                                IntArgOr(status_code, DefaultStatusCode))
    /\ ctorArgs' = [message |-> message, ec |-> ec, status_code |-> status_code]
    /\ stored' = [value |-> ArgOr(message, PyStr(DefaultMessage)),
                  bySetter |-> FALSE]
    /\ lastOp' = Mutation("init", PyNone, 0)
    /\ reads' = <<>>
    /\ UNCHANGED <<hdlVars, regVars, logVars, cfgVars, metaVars>>

\* error.message = value
SetMessage(value) ==
    /\ err' = SetMessageOf(err, value)
    /\ stored' = [value |-> value, bySetter |-> TRUE]
    /\ lastOp' = Mutation("set_message", value, 0)
    /\ reads' = <<>>
    /\ UNCHANGED <<ctorArgs, hdlVars, regVars, logVars, cfgVars, metaVars>>

\* error.ec = value
SetEc(value) ==
    /\ err' = SetEcOf(err, value)
    /\ lastOp' = Mutation("set_ec", value, 0)
    /\ reads' = <<>>
    /\ UNCHANGED <<ctorArgs, stored, hdlVars, regVars, logVars, cfgVars, metaVars>>

\* error.status_code = value
SetStatusCode(value) ==
    /\ err' = SetStatusCodeOf(err, value)
    /\ lastOp' = Mutation("set_status_code", PyNone, value)
    /\ reads' = <<>>
    /\ UNCHANGED <<ctorArgs, stored, hdlVars, regVars, logVars, cfgVars, metaVars>>

\* error.message, read
GetMessage ==
    /\ Len(reads) < MaxReads
    /\ reads' = Append(reads, MessageProp(err))
    /\ UNCHANGED <<err, ctorArgs, stored, lastOp, hdlVars, regVars, logVars, cfgVars, metaVars>>

NextErrors ==
    \/ \E m \in MessageValues \cup {Omitted}, e \in EcValues \cup {Omitted},
          s \in {PyInt(n) : n \in StatusValues} \cup {OmittedInt} : New(m, e, s)
    \/ \E m \in MessageValues : SetMessage(m)
    \/ \E e \in EcValues : SetEc(e)
    \/ \E s \in StatusValues \cup {DefaultStatusCode} : SetStatusCode(s)
    \/ GetMessage

----------------------------------------------------------------------------
(* jetpack.errors.exception_handlers: ExceptionHandlers *)

HTTP_500_INTERNAL_SERVER_ERROR == 500
GenericResponseMessage == "Something went wrong. Please contact support."

\* JSONResponse(status_code=..., content=...)
JSONResponse(status_code, content) ==
    [status_code |-> status_code, content |-> content]
NoResponse == [status_code |-> 0, content |-> [k \in {} |-> PyNone]]

\* One invocation of a handler.  Every handler calls logger.exception(line)
\* and then returns its response; when the log call raises (logOK false)
\* nothing catches it, the handler ends there and returns nothing.
InvocationSwallowing(handler, label, exc, line, logOK, response) ==
    [handler  |-> handler,
     label    |-> label,
     exc      |-> exc,
     logCalls |-> <<line>>,
     logRaised |-> ~logOK,
     events   |-> <<"log", "response">>,
     outcome  |-> "returned",
     response |-> response]
Invocation(handler, label, exc, line, logOK, response) ==
    [handler  |-> handler,
     label    |-> label,
     exc      |-> exc,
     logCalls |-> <<line>>,
     logRaised |-> ~logOK,
     events   |-> IF logOK THEN <<"log", "response">> ELSE <<"log">>,
     outcome  |-> IF logOK THEN "returned" ELSE "raised",
     response |-> IF logOK THEN response ELSE NoResponse]

NoRun ==
    [handler |-> "none", label |-> "", exc |-> PyNone, logCalls |-> <<>>,
     logRaised |-> FALSE,
     events |-> <<>>, outcome |-> "none", response |-> NoResponse]

\* the exceptions the generic handler is given: a type and its str()
PlainExceptions ==
    [type : {"Exception", "ValueError"}, text : {"Test exception", "secret"}]

\* generic_exception_handler(_, exc)
generic_exception_handler_leaking(exc, logOK) ==
    Invocation("generic", "", exc, "Generic Exception: " \o exc.text, logOK,
               JSONResponse(HTTP_500_INTERNAL_SERVER_ERROR,
                            [message |-> PyStr(exc.text)]))
generic_exception_handler(exc, logOK) ==
    Invocation("generic", "", exc, "Generic Exception: " \o exc.text, logOK,
               JSONResponse(HTTP_500_INTERNAL_SERVER_ERROR,
                            [message |-> PyStr(GenericResponseMessage)]))

\* the structured-error types handlers are generated for
ErrorTypes == {"GenericErrors", "CustomError"}

\* exception_handler_generator(exception) returns exception_handler, which
\* closes over exception; this is exception_handler(_, exc)
exception_handler_str(exception, exc, logOK) ==
    Invocation("generated", exception, exc, exception \o ": " \o StrOf(exc),
               logOK,
               JSONResponse(StatusCodeProp(exc),
                            [message |-> PyStr(StrOf(exc))]))
exception_handler_envelope(exception, exc, logOK) ==
    Invocation("generated", exception, exc, exception \o ": " \o StrOf(exc),
               logOK,
               JSONResponse(StatusCodeProp(exc),
                            [status |-> PyStr("failure"),
                             message |-> MessageProp(exc),
                             data |-> PyNone, error |-> PyNone,
                             meta |-> PyNone]))
exception_handler(exception, exc, logOK) ==
    Invocation("generated", exception, exc, exception \o ": " \o StrOf(exc),
               logOK,
               JSONResponse(StatusCodeProp(exc),
                            [message |-> MessageProp(exc)]))

\* the validation errors the validation handler is given: str(exc) and the
\* list exc.errors() returns, one dict per failed field, in its order
HTTP_422_UNPROCESSABLE_CONTENT == 422
MaxErrors == 2
ErrorItems ==
    {[field |-> "test_field", error |-> "required"],
     [field |-> "age", error |-> "int_parsing"]}
ErrorLists ==
    UNION {[1..n -> ErrorItems] : n \in 0..MaxErrors}
ValidationErrors ==
    [type : {"RequestValidationError"},
     text : {"1 validation error"},
     errors : ErrorLists]

\* exc.errors()
errors(exc) == exc.errors

\* a list with its items in the opposite order
RECURSIVE Reversed(_)
Reversed(l) ==
    IF l = <<>> THEN <<>> ELSE Reversed(Tail(l)) \o <<Head(l)>>

\* request_validation_exception_handler(_, exc)
request_validation_exception_handler_reordering(exc, logOK) ==
    Invocation("validation", "", exc,
               "Request Validation Exception: " \o exc.text, logOK,
               JSONResponse(HTTP_422_UNPROCESSABLE_CONTENT,
                            [message |-> PyStr("Request Validation Error"),
                             detail |-> Reversed(errors(exc))]))
request_validation_exception_handler(exc, logOK) ==
    Invocation("validation", "", exc,
               "Request Validation Exception: " \o exc.text, logOK,
               JSONResponse(HTTP_422_UNPROCESSABLE_CONTENT,
                            [message |-> PyStr("Request Validation Error"),
                             detail |-> errors(exc)]))

\* the instances a generated handler is given: as constructed, or with one
\* property assigned afterwards
Constructed ==
    {GenericErrorsInit(m, e, s) :
        m \in MessageValues \cup {PyStr("Custom error occurred")},
        e \in EcValues \cup {PyStr("CUSTOM_001")},
        s \in {400, DefaultStatusCode}}
Instances ==
    Constructed
    \cup {SetMessageOf(x, PyStr("m")) : x \in Constructed}
    \cup {SetEcOf(x, PyStr("E1")) : x \in Constructed}
    \cup {SetStatusCodeOf(x, 404) : x \in Constructed}

InitHdl ==
    /\ run = NoRun
    /\ genericLog = {}

GenericExceptionHandler(exc, logOK) ==
    /\ run' = generic_exception_handler(exc, logOK)
    /\ genericLog' = IF run'.outcome = "returned"
                     THEN genericLog \cup {[exc |-> exc, response |-> run'.response]}
                     ELSE genericLog
    /\ UNCHANGED <<errVars, regVars, logVars, cfgVars, metaVars>>

GeneratedHandler(exception, exc, logOK) ==
    /\ run' = exception_handler(exception, exc, logOK)
    /\ UNCHANGED <<genericLog, errVars, regVars, logVars, cfgVars, metaVars>>

ValidationExceptionHandler(exc, logOK) ==
    /\ run' = request_validation_exception_handler(exc, logOK)
    /\ UNCHANGED <<genericLog, errVars, regVars, logVars, cfgVars, metaVars>>

NextHandlers ==
    \/ \E exc \in PlainExceptions, logOK \in BOOLEAN :
          GenericExceptionHandler(exc, logOK)
    \/ \E exception \in ErrorTypes, exc \in Instances, logOK \in BOOLEAN :
          GeneratedHandler(exception, exc, logOK)
    \/ \E exc \in ValidationErrors, logOK \in BOOLEAN :
          ValidationExceptionHandler(exc, logOK)

----------------------------------------------------------------------------
(* jetpack.errors.exception_handlers: get_exception_handlers *)

\* handler functions, by identity
NoHandler == [kind |-> "None", of |-> ""]
ValidationHandler == [kind |-> "request_validation_exception_handler", of |-> ""]
GenericHandler == [kind |-> "generic_exception_handler", of |-> ""]
GeneratedFor(exception) == [kind |-> "exception_handler", of |-> exception]
Custom(name) == [kind |-> "custom", of |-> name]

\* dict values: a function from exception type to handler
EmptyDict == [k \in {} |-> NoHandler]
\* d.update(e)
Update(d, e) ==
    [k \in DOMAIN d \cup DOMAIN e |-> IF k \in DOMAIN e THEN e[k] ELSE d[k]]

\* optional arguments: None (the default) or a value
NoList == [t |-> "none", l |-> <<>>]
PyList(l) == [t |-> "list", l |-> l]
NoDict == [t |-> "none", d |-> EmptyDict]
PyDict(d) == [t |-> "dict", d |-> d]

\* `x or {}` and the truth of a list
OrEmptyDict(x) == IF x.t = "dict" /\ DOMAIN x.d # {} THEN x.d ELSE EmptyDict
ListTruthy(x) == x.t = "list" /\ Len(x.l) > 0

\* the loop of lines 52-55 over the rest of the list
RECURSIVE AddGenerated(_, _)
AddGenerated(table, l) ==
    IF l = <<>> THEN table
    ELSE AddGenerated(Update(table, (Head(l) :> GeneratedFor(Head(l)))), Tail(l))

\* the dict literal of lines 45-49
BaseHandlers(custom_validation_handler) ==
    ("RequestValidationError" :>
        (IF custom_validation_handler # NoHandler
         THEN custom_validation_handler ELSE ValidationHandler))
    @@ ("Exception" :> GenericHandler)

\* the local `handlers` when get_exception_handlers reaches its end
HandlersDefaultsWin(exceptions_list, custom_validation_handler, exception_handlers) ==
    LET merged == Update(OrEmptyDict(exception_handlers),
                         BaseHandlers(custom_validation_handler))
    IN  IF ListTruthy(exceptions_list)
        THEN AddGenerated(merged, exceptions_list.l) ELSE merged
HandlersOverridesLast(exceptions_list, custom_validation_handler, exception_handlers) ==
    LET base == BaseHandlers(custom_validation_handler)
        generated == IF ListTruthy(exceptions_list)
                     THEN AddGenerated(base, exceptions_list.l) ELSE base
    IN  Update(generated, OrEmptyDict(exception_handlers))
Handlers(exceptions_list, custom_validation_handler, exception_handlers) ==
    LET merged == Update(BaseHandlers(custom_validation_handler),
                         OrEmptyDict(exception_handlers))
    IN  IF ListTruthy(exceptions_list)
        THEN AddGenerated(merged, exceptions_list.l) ELSE merged

\* what the call evaluates to: the function ends without a return statement
get_exception_handlers_returning(exceptions_list, custom_validation_handler, exception_handlers) ==
    PyDict(Handlers(exceptions_list, custom_validation_handler, exception_handlers))
get_exception_handlers(exceptions_list, custom_validation_handler, exception_handlers) ==
    NoDict

\* the inputs the model draws from
MaxList == 2
HandlerKeys == {"RequestValidationError", "Exception", "ValueError", "CustomError"}
ExceptionLists ==
    {NoList} \cup
    {PyList(l) : l \in UNION {[1..n -> ErrorTypes] : n \in 0..MaxList}}
ValidationOverrides == {NoHandler, Custom("V")}
HandlerDicts ==
    {NoDict} \cup
    {PyDict([k \in K |-> Custom("H")]) : K \in SUBSET HandlerKeys}

NotCalled == [t |-> "not called", d |-> EmptyDict]

InitReg ==
    /\ gehArgs = [exceptions_list |-> NoList,
                  custom_validation_handler |-> NoHandler,
                  exception_handlers |-> NoDict]
    /\ handlers = EmptyDict
    /\ gehResult = NotCalled

GetExceptionHandlers(exceptions_list, custom_validation_handler, exception_handlers) ==
    /\ gehArgs' = [exceptions_list |-> exceptions_list,
                   custom_validation_handler |-> custom_validation_handler,
                   exception_handlers |-> exception_handlers]
    /\ handlers' = Handlers(exceptions_list, custom_validation_handler,
                            exception_handlers)
    /\ gehResult' = get_exception_handlers(exceptions_list,
                                           custom_validation_handler,
                                           exception_handlers)
    /\ UNCHANGED <<errVars, hdlVars, logVars, cfgVars, metaVars>>

NextRegistry ==
    \E l \in ExceptionLists, v \in ValidationOverrides, d \in HandlerDicts :
        GetExceptionHandlers(l, v, d)

----------------------------------------------------------------------------
(* jetpack.log_config: read_configuration, configure_logger *)

\* logging's level names and their numbers (setLevel converts a name)
LevelNames == {"DEBUG", "INFO", "WARNING", "ERROR", "CRITICAL"}
LevelValue(name) ==
    CASE name = "DEBUG" -> 10
      [] name = "INFO" -> 20
      [] name = "WARNING" -> 30
      [] name = "ERROR" -> 40
      [] name = "CRITICAL" -> 50
\* a logger's level before anything sets it: WARNING for root, NOTSET else
RootDefaultLevel == LevelValue("WARNING")

LoggerNames == {"httpx", "pymongo", "custom"}

\* read_configuration(project_name), c being the LogConfig it reads
read_configuration_capped(project_name, c) ==
    [name |-> project_name,
     handlers |->
        << [type |-> "RotatingFileHandler", max_bytes |-> 10000000,
            back_up_count |-> 3, enable |-> c.ENABLE_FILE_LOG],
           [type |-> "StreamHandler", enable |-> c.ENABLE_CONSOLE_LOG] >>]
read_configuration_console_first(project_name, c) ==
    [name |-> project_name,
     handlers |->
        << [type |-> "StreamHandler", enable |-> c.ENABLE_CONSOLE_LOG],
           [type |-> "RotatingFileHandler", max_bytes |-> 100000000,
            back_up_count |-> 5, enable |-> c.ENABLE_FILE_LOG] >>]
read_configuration(project_name, c) ==
    [name |-> project_name,
     handlers |->
        << [type |-> "RotatingFileHandler", max_bytes |-> 100000000,
            back_up_count |-> 5, enable |-> c.ENABLE_FILE_LOG],
           [type |-> "StreamHandler", enable |-> c.ENABLE_CONSOLE_LOG] >>]

\* each_handler.get(key, default)
Get(each_handler, key, default) ==
    IF key \in DOMAIN each_handler THEN each_handler[key] ELSE default

\* logging.Formatter(log_formatter, time_format) of lines 36-38
NoFormatter == [fmt |-> "", datefmt |-> ""]
Formatter ==
    [fmt |-> "%(asctime)s - %(levelname)-6s - [%(threadName)5s:%(funcName)5s(): %(lineno)s] - %(message)s",
     datefmt |-> "%Y-%m-%d %H:%M:%S"]

\* handler objects; `call` tells the objects of one call from another's
RotatingFileHandler(log_file, maxBytes, backupCount, call) ==
    [type |-> "RotatingFileHandler", call |-> call, file |-> log_file,
     maxBytes |-> maxBytes, backupCount |-> backupCount,
     formatter |-> NoFormatter, filters |-> <<>>]
StreamHandler(call) ==
    [type |-> "StreamHandler", call |-> call, file |-> "",
     maxBytes |-> 0, backupCount |-> 0,
     formatter |-> NoFormatter, filters |-> <<>>]
\* a handler some other code attached to the root logger
ForeignHandler(call) ==
    [type |-> "Foreign", call |-> call, file |-> "",
     maxBytes |-> 0, backupCount |-> 0,
     formatter |-> NoFormatter, filters |-> <<>>]
setFormatter(h, f) == [h EXCEPT !.formatter = f]

\* pathlib.Path(directory, name)
PathOf(directory, name) == directory \o "/" \o name

\* __logger__.setLevel(LogConfig.LOG_LEVEL)
setLevelOnlyRaising(logger, level) ==
    IF LevelValue(level) > logger.level
    THEN [logger EXCEPT !.level = LevelValue(level)]
    ELSE logger
setLevel(logger, level) == [logger EXCEPT !.level = LevelValue(level)]
\* __logger__.handlers = []
HandlersKept(logger) == logger
HandlersTrimmed(logger) ==
    [logger EXCEPT !.handlers = IF @ = <<>> THEN <<>> ELSE <<Head(@)>>]
HandlersReset(logger) == [logger EXCEPT !.handlers = <<>>]
\* __logger__.addHandler(temp_handler)
addHandler(logger, h) ==
    IF \E i \in 1..Len(logger.handlers) : logger.handlers[i] = h
    THEN logger
    ELSE [logger EXCEPT !.handlers = Append(@, h)]

\* for each_module in modules: logging.getLogger(each_module).setLevel(level)
RECURSIVE DeferredOnlyUnset(_, _, _)
DeferredOnlyUnset(levels, modules, level) ==
    IF modules = <<>> THEN levels
    ELSE DeferredOnlyUnset(
             IF levels[Head(modules)] = 0
             THEN [levels EXCEPT ![Head(modules)] = LevelValue(level)]
             ELSE levels,
             Tail(modules), level)
DeferredResettingOthers(levels, modules, level) ==
    [n \in DOMAIN levels |->
        IF \E i \in 1..Len(modules) : modules[i] = n
        THEN LevelValue(level) ELSE 0]
RECURSIVE Deferred(_, _, _)
Deferred(levels, modules, level) ==
    IF modules = <<>> THEN levels
    ELSE Deferred([levels EXCEPT ![Head(modules)] = LevelValue(level)],
                  Tail(modules), level)

\* PathConf.LOGS_MODULE_PATH.mkdir(parents=True, exist_ok=True), when it
\* succeeds: the directory exists afterwards, as do those that did before
mkdirSkipped(ds, path) == ds
mkdir(ds, path) == ds \cup {path}

\* the threads that may call configure_logger, and the calls the model follows
Threads == {1, 2}
MaxCalls == 2
MaxForeign == 1

\* the LogConfig and PathConf values a call reads, and its argument
AllConfs ==
    [project_name          : {"my-service"},
     LOGS_MODULE_PATH      : {"code/data/logs/my_service"},
     LOG_LEVEL             : LevelNames,
     ENABLE_FILE_LOG       : BOOLEAN,
     ENABLE_CONSOLE_LOG    : BOOLEAN,
     DEFER_LOG_MODULES     : {<<"httpx", "pymongo">>, <<"pymongo", "httpx">>},
     DEFER_ADDITIONAL_LOGS : {<<>>, <<"custom">>},
     DEFER_LOG_LEVEL       : {"INFO", "ERROR"}]
\* every root level with the default deferred settings, and every deferred
\* setting with two of the root levels
Confs ==
    {c \in AllConfs :
        \/ c.LOG_LEVEL \in {"INFO", "ERROR"}
        \/ /\ c.DEFER_LOG_MODULES = <<"httpx", "pymongo">>
           /\ c.DEFER_ADDITIONAL_LOGS = <<>>
           /\ c.DEFER_LOG_LEVEL = "INFO"}
\* the settings of calls that run concurrently: every choice of sinks
ConcurrentConfs ==
    {c \in AllConfs :
        /\ c.LOG_LEVEL = "INFO"
        /\ c.DEFER_LOG_MODULES = <<"httpx", "pymongo">>
        /\ c.DEFER_ADDITIONAL_LOGS = <<>>
        /\ c.DEFER_LOG_LEVEL = "INFO"}
NoConf ==
    [project_name |-> "", LOGS_MODULE_PATH |-> "", LOG_LEVEL |-> "",
     ENABLE_FILE_LOG |-> FALSE, ENABLE_CONSOLE_LOG |-> FALSE,
     DEFER_LOG_MODULES |-> <<>>, DEFER_ADDITIONAL_LOGS |-> <<>>,
     DEFER_LOG_LEVEL |-> ""]
NoCall == [c |-> NoConf, call |-> 0]
NoReturn == [outcome |-> "none", c |-> NoConf, call |-> 0]

InitLog ==
    /\ root = [level |-> RootDefaultLevel, handlers |-> <<>>]
    /\ loggerLevel = [n \in LoggerNames |-> 0]
    /\ dirs = {}
    /\ calls = 0
    /\ pc = [t \in Threads |-> "idle"]
    /\ conf = [t \in Threads |-> NoCall]
    /\ ret = NoReturn
    /\ overlapped = FALSE

AllIdle == \A t \in Threads : pc[t] = "idle"

\* a thread enters configure_logger(project_name)
Enter(t, c) ==
    /\ pc[t] = "idle"
    /\ calls < MaxCalls
    /\ calls' = calls + 1
    /\ conf' = [conf EXCEPT ![t] = [c |-> c, call |-> calls + 1]]
    /\ pc' = [pc EXCEPT ![t] = "setLevel"]
    /\ overlapped' = (overlapped \/ \E u \in Threads \ {t} : pc[u] # "idle")
    /\ UNCHANGED <<root, loggerLevel, dirs, ret, errVars, hdlVars, regVars, cfgVars, metaVars>>

\* calls made one after the other (at start-up, or behind a one-time barrier)
Call(t, c) == AllIdle /\ Enter(t, c)
\* calls made with nothing serializing them
CallConcurrently(t, c) == Enter(t, c)

\* lines 28-30
SetRootLevel(t) ==
    /\ pc[t] = "setLevel"
    /\ root' = setLevel(root, conf[t].c.LOG_LEVEL)
    /\ pc' = [pc EXCEPT ![t] = "clear"]
    /\ UNCHANGED <<loggerLevel, dirs, calls, conf, ret, overlapped, errVars, hdlVars, regVars, cfgVars, metaVars>>

\* line 31
ClearHandlers(t) ==
    /\ pc[t] = "clear"
    /\ root' = HandlersReset(root)
    /\ pc' = [pc EXCEPT ![t] = "defer"]
    /\ UNCHANGED <<loggerLevel, dirs, calls, conf, ret, overlapped, errVars, hdlVars, regVars, cfgVars, metaVars>>

\* lines 32-35
DeferLevels(t) ==
    /\ pc[t] = "defer"
    /\ loggerLevel' =
          Deferred(Deferred(loggerLevel, conf[t].c.DEFER_LOG_MODULES,
                            conf[t].c.DEFER_LOG_LEVEL),
                   conf[t].c.DEFER_ADDITIONAL_LOGS, conf[t].c.DEFER_LOG_LEVEL)
    /\ pc' = [pc EXCEPT ![t] = "handler1"]
    /\ UNCHANGED <<root, dirs, calls, conf, ret, overlapped, errVars, hdlVars, regVars, cfgVars, metaVars>>

HandlerPc(i) == IF i = 1 THEN "handler1" ELSE "handler2"

\* the end of one iteration of the loop of lines 39-58: the next entry, or
\* `return __logger__` after the last
Continue(t, i) ==
    IF i < Len(read_configuration(conf[t].c.project_name, conf[t].c).handlers)
    THEN /\ pc' = [pc EXCEPT ![t] = HandlerPc(i + 1)]
         /\ UNCHANGED <<conf, ret>>
    ELSE /\ pc' = [pc EXCEPT ![t] = "idle"]
         /\ ret' = [outcome |-> "returned", c |-> conf[t].c,
                    call |-> conf[t].call]
         /\ conf' = [conf EXCEPT ![t] = NoCall]

\* an exception leaves configure_logger
RaiseSwallowed(t) ==
    /\ pc' = [pc EXCEPT ![t] = HandlerPc(2)]
    /\ UNCHANGED <<conf, ret>>
Raise(t) ==
    /\ pc' = [pc EXCEPT ![t] = "idle"]
    /\ ret' = [outcome |-> "raised", c |-> conf[t].c,
               call |-> conf[t].call]
    /\ conf' = [conf EXCEPT ![t] = NoCall]

\* one iteration of the loop of lines 39-58, for entry i
Iteration(t, i) ==
    LET c == conf[t].c
        each_handler == read_configuration(c.project_name, c).handlers[i]
        log_file == PathOf(c.LOGS_MODULE_PATH, c.project_name \o ".log")
    IN
    /\ pc[t] = HandlerPc(i)
    /\ IF /\ each_handler.type \in {"RotatingFileHandler"}
          /\ Get(each_handler, "enable", FALSE)
       THEN \* mkdir(parents=True, exist_ok=True) creates the directory, or
            \* raises when it cannot
            \/ /\ dirs' = mkdir(dirs, c.LOGS_MODULE_PATH)
               /\ root' = addHandler(root,
                     setFormatter(RotatingFileHandler(log_file,
                                      each_handler.max_bytes,
                                      each_handler.back_up_count,
                                      conf[t].call),
                                  Formatter))
               /\ Continue(t, i)
            \/ /\ c.LOGS_MODULE_PATH \notin dirs
               /\ Raise(t)
               /\ UNCHANGED <<root, dirs>>
       ELSE IF /\ each_handler.type \in {"StreamHandler"}
               /\ Get(each_handler, "enable", TRUE)
       THEN /\ root' = addHandler(root,
                          setFormatter(StreamHandler(conf[t].call), Formatter))
            /\ Continue(t, i)
            /\ UNCHANGED dirs
       ELSE /\ Continue(t, i)
            /\ UNCHANGED <<root, dirs>>
    /\ UNCHANGED <<loggerLevel, calls, overlapped, errVars, hdlVars, regVars, cfgVars, metaVars>>

\* other code attaches a handler of its own to the root logger
AttachForeign ==
    /\ AllIdle
    /\ Cardinality({i \in 1..Len(root.handlers) :
                        root.handlers[i].type = "Foreign"}) < MaxForeign
    /\ root' = addHandler(root, ForeignHandler(calls))
    /\ UNCHANGED <<loggerLevel, dirs, calls, pc, conf, ret, overlapped,
                   errVars, hdlVars, regVars, cfgVars, metaVars>>

Steps(t) ==
    \/ SetRootLevel(t)
    \/ ClearHandlers(t)
    \/ DeferLevels(t)
    \/ \E i \in 1..2 : Iteration(t, i)

NextLogger ==
    \/ \E t \in Threads, c \in Confs : Call(t, c)
    \/ \E t \in Threads : Steps(t)
    \/ AttachForeign

NextLoggerConcurrent ==
    \/ \E t \in Threads, c \in ConcurrentConfs : CallConcurrently(t, c)
    \/ \E t \in Threads : Steps(t)
    \/ AttachForeign

----------------------------------------------------------------------------
(* Specifications *)

----------------------------------------------------------------------------
(* jetpack.config: _PathConf *)

\* the characters of a str
Char(s, i) == SubSeq(s, i, i)
Rest(s) == SubSeq(s, 2, Len(s))
StartsWith(s, c) == Len(s) > 0 /\ Char(s, 1) = c
EndsWith(s, c) == Len(s) > 0 /\ Char(s, Len(s)) = c

\* s.replace(old, new), for a one-character old
RECURSIVE replaceFirst(_, _, _)
replaceFirst(s, old, new) ==
    IF Len(s) = 0 THEN ""
    ELSE IF Char(s, 1) = old THEN new \o Rest(s)
    ELSE Char(s, 1) \o replaceFirst(Rest(s), old, new)
RECURSIVE replace(_, _, _)
replace(s, old, new) ==
    IF Len(s) = 0 THEN ""
    ELSE (IF Char(s, 1) = old THEN new ELSE Char(s, 1))
         \o replace(Rest(s), old, new)

\* os.path.join(a, *p) of posixpath: a component that starts with the
\* separator replaces what came before it; a separator is put between two
\* components unless the left one is empty or already ends with one
RECURSIVE os_path_join_appending(_, _)
os_path_join_appending(a, p) ==
    IF p = <<>> THEN a
    ELSE LET b == Head(p)
             path == IF Len(a) = 0 \/ EndsWith(a, "/") \/ StartsWith(b, "/")
                     THEN a \o b
                     ELSE a \o "/" \o b
         IN os_path_join_appending(path, Tail(p))
RECURSIVE os_path_join(_, _)
os_path_join(a, p) ==
    IF p = <<>> THEN a
    ELSE LET b == Head(p)
             path == IF StartsWith(b, "/") THEN b
                     ELSE IF Len(a) = 0 \/ EndsWith(a, "/") THEN a \o b
                     ELSE a \o "/" \o b
         IN os_path_join(path, Tail(p))

\* str(pathlib.Path(s)): the field types of BASE_PATH and LOGS_MODULE_PATH.
\* A path keeps its segments; empty and "." segments and a trailing
\* separator are dropped.
RECURSIVE Parts(_, _)
Parts(s, cur) ==
    IF Len(s) = 0 THEN <<cur>>
    ELSE IF Char(s, 1) = "/" THEN <<cur>> \o Parts(Rest(s), "")
    ELSE Parts(Rest(s), cur \o Char(s, 1))
RECURSIVE JoinParts(_)
JoinParts(segs) ==
    IF segs = <<>> THEN ""
    ELSE IF Len(segs) = 1 THEN segs[1]
    ELSE segs[1] \o "/" \o JoinParts(Tail(segs))
Segments(s) == SelectSeq(Parts(s, ""), LAMBDA x : x # "" /\ x # ".")
Path(s) ==
    IF StartsWith(s, "/") THEN "/" \o JoinParts(Segments(s))
    ELSE IF Segments(s) = <<>> THEN "."
    ELSE JoinParts(Segments(s))

DefaultBasePath == "code/data"
DefaultModuleName == ""

\* values.get(key) on the input of the model: the keys that were supplied
ValuesGet(values, key) ==
    IF key \in DOMAIN values THEN PyStr(values[key]) ELSE PyNone

\* path_merger(cls, values), a "before" validator: it sees the input as it
\* was supplied, before any field default is applied.  The arguments of
\* os.path.join are evaluated first, so a missing MODULE_NAME fails in
\* .replace before a missing BASE_PATH fails in the join.
path_merger(values) ==
    LET base == ValuesGet(values, "BASE_PATH")
        mod  == ValuesGet(values, "MODULE_NAME")
    IN  IF mod = PyNone
        THEN [raised |-> "AttributeError", values |-> values]
        ELSE IF base = PyNone
        THEN [raised |-> "TypeError", values |-> values]
        ELSE [raised |-> "",
              values |->
                [k \in DOMAIN values \cup {"LOGS_MODULE_PATH"} |->
                    IF k = "LOGS_MODULE_PATH"
                    THEN os_path_join(base.v,
                                      <<"logs", replace(mod.v, "-", "_")>>)
                    ELSE values[k]]]

\* _PathConf(): the validator, then the fields from the validated input
\* or their defaults
NoPathConf ==
    [outcome |-> "none", BASE_PATH |-> "", MODULE_NAME |-> "",
     LOGS_MODULE_PATH |-> PyNone, assigned |-> FALSE]
FieldOr(values, key, default) ==
    IF key \in DOMAIN values THEN values[key] ELSE default
PathConfInit(input) ==
    LET r == path_merger(input)
    IN  IF r.raised # ""
        THEN [NoPathConf EXCEPT !.outcome = r.raised]
        ELSE [outcome |-> "built",
              BASE_PATH |-> Path(FieldOr(r.values, "BASE_PATH", DefaultBasePath)),
              MODULE_NAME |-> FieldOr(r.values, "MODULE_NAME", DefaultModuleName),
              LOGS_MODULE_PATH |-> PyStr(Path(r.values["LOGS_MODULE_PATH"])),
              assigned |-> FALSE]

\* PathConf.BASE_PATH = value and PathConf.MODULE_NAME = value: the
\* settings class does not validate assignments, so the attribute is set
\* and nothing else runs
SetBasePathOf(conf_, value) ==
    [conf_ EXCEPT !.BASE_PATH = value, !.assigned = TRUE]
SetModuleNameOf(conf_, value) ==
    [conf_ EXCEPT !.MODULE_NAME = value, !.assigned = TRUE]

\* the inputs: base paths, and module names of up to MaxName characters
MaxName == 3
RECURSIVE Names(_)
Names(n) ==
    IF n = 0 THEN {""}
    ELSE Names(n - 1) \cup {x \o c : x \in Names(n - 1), c \in {"a", "-"}}
BasePaths == {"/tmp/test", "/tmp/test/", "/test", "code/data", "/a-b"}
ModuleNames ==
    Names(MaxName)
    \cup {"my-service", "test-app", "/opt/my-logs", "/test/logs/my-logs"}
ExplicitLogsPath == "/explicit/logs"
Inputs ==
    {[k \in K |-> IF k = "BASE_PATH" THEN b
                  ELSE IF k = "MODULE_NAME" THEN m
                  ELSE ExplicitLogsPath] :
        K \in SUBSET {"BASE_PATH", "MODULE_NAME", "LOGS_MODULE_PATH"},
        b \in BasePaths, m \in ModuleNames}
\* the values assigned after construction
AssignedBasePaths == {"/srv"}
AssignedModuleNames == {"", "other-app"}

InitCfg ==
    /\ pathEnv = [k \in {} |-> ""]
    /\ pathConf = NoPathConf

NewPathConf(input) ==
    /\ pathEnv' = input
    /\ pathConf' = PathConfInit(input)
    /\ UNCHANGED <<errVars, hdlVars, regVars, logVars, metaVars>>

AssignBasePath(value) ==
    /\ pathConf.outcome = "built"
    /\ pathConf' = SetBasePathOf(pathConf, value)
    /\ UNCHANGED <<pathEnv, errVars, hdlVars, regVars, logVars, metaVars>>

AssignModuleName(value) ==
    /\ pathConf.outcome = "built"
    /\ pathConf' = SetModuleNameOf(pathConf, value)
    /\ UNCHANGED <<pathEnv, errVars, hdlVars, regVars, logVars, metaVars>>

NextConfig ==
    \/ \E input \in Inputs : NewPathConf(input)
    \/ \E value \in AssignedBasePaths : AssignBasePath(value)
    \/ \E value \in AssignedModuleNames : AssignModuleName(value)

----------------------------------------------------------------------------
(* jetpack.responses: get_correlation_id, get_current_timestamp, RequestMeta *)

\* the correlation_id context variable: not set in this context, or set
Unset == [t |-> "unset", v |-> ""]
CorrelationIds == {PyStr("test-correlation-123"), PyStr("cid-2")}

\* correlation_id.get(): the value, or LookupError when nothing is set
LookupError == [raised |-> "LookupError", value |-> PyNone]
ContextGet(var) ==
    IF var = Unset THEN LookupError ELSE [raised |-> "", value |-> var]

\* get_correlation_id(): try: return correlation_id.get()
\*                       except LookupError: return None
get_correlation_id_unguarded(var) == ContextGet(var)
get_correlation_id(var) ==
    LET r == ContextGet(var)
    IN  IF r.raised = "LookupError"
        THEN [raised |-> "", value |-> PyNone]
        ELSE r

\* Instant.now().format_common_iso(), for the instant `now` seconds after
\* the start of a minute
MaxClock == 1
Digits == <<"0", "1", "2", "3", "4", "5", "6", "7", "8", "9">>
format_common_iso(now) ==
    "2023-12-25T10:30:" \o Digits[(now \div 10) + 1]
                        \o Digits[(now % 10) + 1] \o "Z"
get_current_timestamp(now) == PyStr(format_common_iso(now))

\* RequestMeta(request_id=..., timestamp=...): a field that is given,
\* None included, is stored; for a field that is not given the
\* default_factory is called.  `given` and `at` record the call.
NoMeta ==
    [outcome |-> "none", request_id |-> PyNone, timestamp |-> PyNone,
     given |-> [request_id |-> Omitted, timestamp |-> Omitted],
     at |-> [ambient |-> Unset, clock |-> 0]]
RequestMeta(request_id, timestamp, var, now) ==
    IF request_id = Omitted /\ get_correlation_id(var).raised # ""
    THEN [NoMeta EXCEPT
             !.outcome = get_correlation_id(var).raised,
             !.given = [request_id |-> request_id, timestamp |-> timestamp],
             !.at = [ambient |-> var, clock |-> now]]
    ELSE [outcome |-> "built",
          request_id |-> IF request_id = Omitted
                         THEN get_correlation_id(var).value
                         ELSE request_id,
          timestamp |-> IF timestamp = Omitted
                        THEN get_current_timestamp(now)
                        ELSE timestamp,
          given |-> [request_id |-> request_id, timestamp |-> timestamp],
          at |-> [ambient |-> var, clock |-> now]]

\* the arguments a RequestMeta is built with
RequestIdArgs == {Omitted, PyNone, PyStr("custom-request-id-456")}
TimestampArgs == {Omitted, PyNone, PyStr("2023-12-25T10:30:00Z")}

\* the envelopes.  A field that is not given takes its declared default:
\* the status and message texts, and None for data, error and meta (no
\* RequestMeta is built for an envelope that is not given one).
NoneMeta == [t |-> "none", m |-> NoMeta]
SomeMeta(m) == [t |-> "meta", m |-> m]
OmittedMeta == [t |-> "omitted", m |-> NoMeta]
MetaArgOr(a, default) == IF a.t = "omitted" THEN default ELSE a

DefaultFailureSchemaWithMeta(message, data, error, m, var, now) ==
    [kind |-> "failure",
     status |-> "failure",
     message |-> ArgOr(message, PyStr("Response fetch failed")),
     data |-> ArgOr(data, PyNone),
     error |-> ArgOr(error, PyNone),
     meta |-> MetaArgOr(m, SomeMeta(RequestMeta(Omitted, Omitted, var, now))),
     given |-> [message |-> message, data |-> data, error |-> error, meta |-> m],
     at |-> [ambient |-> var]]
DefaultFailureSchema(message, data, error, m, var, now) ==
    [kind |-> "failure",
     status |-> "failure",
     message |-> ArgOr(message, PyStr("Response fetch failed")),
     data |-> ArgOr(data, PyNone),
     error |-> ArgOr(error, PyNone),
     meta |-> MetaArgOr(m, NoneMeta),
     given |-> [message |-> message, data |-> data, error |-> error, meta |-> m],
     at |-> [ambient |-> var]]
DefaultResponseSchema(message, data, m, var, now) ==
    [kind |-> "success",
     status |-> "success",
     message |-> ArgOr(message, PyStr("Response fetched successfully")),
     data |-> ArgOr(data, PyNone),
     meta |-> MetaArgOr(m, NoneMeta),
     given |-> [message |-> message, data |-> data, meta |-> m],
     at |-> [ambient |-> var]]
NoEnvelope == [kind |-> "none"]

\* the arguments an envelope is built with; its meta argument is left out,
\* None, or the RequestMeta built last
EnvelopeMessages == {Omitted}
EnvelopeErrors == {Omitted, PyStr("VAL_001")}
EnvelopeData == {Omitted}
MetaArgs ==
    {OmittedMeta, NoneMeta}
    \cup (IF meta.outcome = "built" THEN {SomeMeta(meta)} ELSE {})

InitMeta ==
    /\ ambient = Unset
    /\ clock = 0
    /\ meta = NoMeta
    /\ envelope = NoEnvelope

\* token = correlation_id.set(value)
SetCorrelationIdRebinding(value) ==
    /\ ambient' = value
    /\ meta' = IF meta.outcome = "built" /\ meta.given.request_id = Omitted
               THEN [meta EXCEPT !.request_id = value]
               ELSE meta
    /\ UNCHANGED <<clock, envelope, errVars, hdlVars, regVars, logVars, cfgVars>>
SetCorrelationId(value) ==
    /\ ambient' = value
    /\ UNCHANGED <<clock, meta, envelope, errVars, hdlVars, regVars, logVars, cfgVars>>

\* correlation_id.reset(token), back to nothing set
ResetCorrelationId ==
    /\ ambient # Unset
    /\ ambient' = Unset
    /\ UNCHANGED <<clock, meta, envelope, errVars, hdlVars, regVars, logVars, cfgVars>>

\* time passes
Tick ==
    /\ clock < MaxClock
    /\ clock' = clock + 1
    /\ UNCHANGED <<ambient, meta, envelope, errVars, hdlVars, regVars, logVars, cfgVars>>

NewRequestMeta(request_id, timestamp) ==
    /\ meta' = RequestMeta(request_id, timestamp, ambient, clock)
    /\ UNCHANGED <<ambient, clock, envelope, errVars, hdlVars, regVars, logVars, cfgVars>>

NewFailure(message, data, error, m) ==
    /\ envelope' = DefaultFailureSchema(message, data, error, m, ambient, clock)
    /\ UNCHANGED <<ambient, clock, meta, errVars, hdlVars, regVars, logVars, cfgVars>>

NewSuccess(message, data, m) ==
    /\ envelope' = DefaultResponseSchema(message, data, m, ambient, clock)
    /\ UNCHANGED <<ambient, clock, meta, errVars, hdlVars, regVars, logVars, cfgVars>>

NextResponses ==
    \/ \E value \in CorrelationIds : SetCorrelationId(value)
    \/ ResetCorrelationId
    \/ Tick
    \/ \E request_id \in RequestIdArgs, timestamp \in TimestampArgs :
          NewRequestMeta(request_id, timestamp)
    \/ \E message \in EnvelopeMessages, data \in EnvelopeData,
          error \in EnvelopeErrors, m \in MetaArgs :
          NewFailure(message, data, error, m)
    \/ \E message \in EnvelopeMessages, data \in EnvelopeData, m \in MetaArgs :
          NewSuccess(message, data, m)

----------------------------------------------------------------------------
Init == InitErr /\ InitHdl /\ InitReg /\ InitLog /\ InitCfg
        /\ InitMeta

Next ==
    \/ NextErrors
    \/ NextHandlers
    \/ NextRegistry
    \/ NextLogger
    \/ NextConfig
    \/ NextResponses

Spec == Init /\ [][Next]_vars
SpecErrors == Init /\ [][NextErrors]_vars
SpecHandlers == Init /\ [][NextHandlers]_vars
SpecRegistry == Init /\ [][NextRegistry]_vars
SpecLogger == Init /\ [][NextLogger]_vars
SpecConfig == Init /\ [][NextConfig]_vars
SpecResponses == Init /\ [][NextResponses]_vars
SpecLoggerConcurrent == Init /\ [][NextLoggerConcurrent]_vars

----------------------------------------------------------------------------
(* Properties of GenericErrors *)

\* the message a constructor call is to leave, written from its arguments
CtorEc == ArgOr(ctorArgs.ec, PyNone)
CtorMessage == ArgOr(ctorArgs.message, PyStr(DefaultMessage))
CtorNoCode == CtorEc = PyNone \/ CtorEc = PyStr("")
CtorPrefixed == PyStr(CtorEc.v \o ": " \o Fmt(CtorMessage))

\* C2: for every (ec, message) given to the constructor, the message
\* property is message verbatim iff ec is None or "", and "<ec>: <message>"
\* otherwise (also for an empty message); every read of the property
\* returns that same value, the prefix applied once.
C2_ConstructorRendersOnce ==
    lastOp.op = "init" =>
        /\ (MessageProp(err) = CtorMessage) <=> CtorNoCode
        /\ ~CtorNoCode => MessageProp(err) = CtorPrefixed
        /\ \A i \in 1..Len(reads) :
              reads[i] = IF CtorNoCode THEN CtorMessage ELSE CtorPrefixed

\* an instance built with ec "E1" and an empty message, read twice
C2_Witness ==
    /\ lastOp.op = "init"
    /\ ctorArgs.ec = PyStr("E1")
    /\ ctorArgs.message = PyStr("")
    /\ Len(reads) >= 2
    /\ reads[1] = PyStr("E1: ")
    /\ reads[2] = PyStr("E1: ")

\* C3 as claimed: after setter calls the message property is re-rendered
\* from the current ec and the stored message.
C3_RenderedFollowsSetters ==
    lastOp.op \in {"set_message", "set_ec"} =>
        MessageProp(err) =
            IF err._ec = PyNone \/ err._ec = PyStr("")
            THEN stored.value
            ELSE PyStr(err._ec.v \o ": " \o Fmt(stored.value))

\* C3, amended: the setters recompute nothing.  After any sequence of setter
\* calls the message property is the last value assigned to message,
\* verbatim whatever ec is, or, if message was never assigned, what the
\* constructor rendered from its own arguments.
C3_SettersRecomputeNothing ==
    lastOp.op \in {"set_message", "set_ec", "set_status_code"} =>
        MessageProp(err) =
            IF stored.bySetter THEN stored.value
            ELSE IF CtorNoCode THEN CtorMessage ELSE CtorPrefixed

\* an instance built without a code whose ec was then assigned "E1": its
\* message is still the bare constructor message
C3_Witness ==
    /\ lastOp = Mutation("set_ec", PyStr("E1"), 0)
    /\ ~stored.bySetter
    /\ CtorNoCode
    /\ ctorArgs.message = PyStr("m")
    /\ err._ec = PyStr("E1")
    /\ MessageProp(err) = PyStr("m")

\* C4: each setter stores the assigned value in its own field and leaves
\* the other two fields as they were.
C4_SettersStoreOwnFieldOnly ==
    [][ (err' # err \/ lastOp' # lastOp) =>
          /\ lastOp'.op = "set_message" =>
                /\ MessageProp(err') = lastOp'.val
                /\ EcProp(err') = EcProp(err)
                /\ StatusCodeProp(err') = StatusCodeProp(err)
          /\ lastOp'.op = "set_ec" =>
                /\ EcProp(err') = lastOp'.val
                /\ MessageProp(err') = MessageProp(err)
                /\ StatusCodeProp(err') = StatusCodeProp(err)
          /\ lastOp'.op = "set_status_code" =>
                /\ StatusCodeProp(err') = lastOp'.num
                /\ MessageProp(err') = MessageProp(err)
                /\ EcProp(err') = EcProp(err) ]_vars

\* message assigned "m", then ec assigned "E1": the message property is "m"
C4_Witness ==
    /\ lastOp = Mutation("set_ec", PyStr("E1"), 0)
    /\ stored = [value |-> PyStr("m"), bySetter |-> TRUE]
    /\ MessageProp(err) = PyStr("m")
    /\ EcProp(err) = PyStr("E1")

\* C23: a GenericErrors built with no arguments has the default message,
\* ec None and status_code 500; a constructor call that leaves status_code
\* out gives 500, and one that supplies it stores the supplied number,
\* whatever its message and ec are.
C23_ConstructorDefaults ==
    lastOp.op = "init" =>
        /\ (ctorArgs = [message |-> Omitted, ec |-> Omitted,
                        status_code |-> OmittedInt]) =>
              /\ MessageProp(err) =
                    PyStr("An error has occurred. Please contact support.")
              /\ EcProp(err) = PyNone
              /\ StatusCodeProp(err) = 500
        /\ ctorArgs.status_code.t = "omitted" => StatusCodeProp(err) = 500
        /\ ctorArgs.status_code.t = "int" =>
              StatusCodeProp(err) = ctorArgs.status_code.n

\* built with a message, an ec and status_code 404
C23_Witness ==
    /\ lastOp.op = "init"
    /\ ctorArgs = [message |-> PyStr("m"), ec |-> PyStr("E1"),
                   status_code |-> PyInt(404)]
    /\ StatusCodeProp(err) = 404
    /\ MessageProp(err) = PyStr("E1: m")

\* C29: str(error) and the exception's args are those of the construction:
\* the message the constructor rendered from its ec and message, whatever
\* was assigned to message, ec or status_code since.
C29_StrFixedAtConstruction ==
    LET rendered == IF CtorNoCode THEN CtorMessage ELSE CtorPrefixed
    IN  /\ err.args = <<rendered>>
        /\ StrOf(err) = (IF rendered = PyNone THEN "None" ELSE rendered.v)

\* after a message assignment str(error) and error.message differ
C29_Witness ==
    /\ lastOp.op = "set_message"
    /\ ctorArgs.ec = PyStr("E1")
    /\ ctorArgs.message = PyStr("")
    /\ MessageProp(err) = PyStr("m")
    /\ StrOf(err) = "E1: "

----------------------------------------------------------------------------
(* Properties of the exception handlers *)

\* C8: the response of a generated handler has the handled instance's
\* status_code as its status and the instance's message as its body
\* message, as both are when it is handled.
C8_GeneratedResponseCarriesInstance ==
    (run.handler = "generated" /\ run.outcome = "returned") =>
        /\ run.response.status_code = run.exc._status_code
        /\ run.response.content.message = run.exc._message

\* CustomError(message="Custom error occurred", ec="CUSTOM_001",
\* status_code=400), handled by the handler generated for CustomError
C8_Witness ==
    /\ run.handler = "generated"
    /\ run.outcome = "returned"
    /\ run.label = "CustomError"
    /\ run.exc = [_ec |-> PyStr("CUSTOM_001"),
                  _message |-> PyStr("CUSTOM_001: Custom error occurred"),
                  _status_code |-> 400,
                  args |-> <<PyStr("CUSTOM_001: Custom error occurred")>>]
    /\ run.response.status_code = 400
    /\ run.response.content.message = PyStr("CUSTOM_001: Custom error occurred")

\* C9 as claimed: the generated handler's body is a failure envelope, with
\* the fields status, message, data, error and meta.
C9_BodyIsFailureEnvelope ==
    (run.handler = "generated" /\ run.outcome = "returned") =>
        DOMAIN run.response.content =
            {"status", "message", "data", "error", "meta"}

\* C9, amended: the generated handler's response is the instance's
\* status_code with a body of the single field message, the instance's
\* message; the body has none of the envelope's other fields.
C9_BodyIsMessageOnly ==
    (run.handler = "generated" /\ run.outcome = "returned") =>
        run.response = [status_code |-> run.exc._status_code,
                        content |-> [message |-> run.exc._message]]

\* an instance whose message was assigned after construction, handled
C9_Witness ==
    /\ run.handler = "generated"
    /\ run.outcome = "returned"
    /\ run.exc.args # <<run.exc._message>>
    /\ run.exc._message = PyStr("m")
    /\ DOMAIN run.response.content = {"message"}
    /\ run.response.content.message = PyStr("m")

\* C10: the generic handler's response does not depend on the exception:
\* any two exceptions get the same response, status 500 with the fixed
\* message; the exception's text goes to the log call only.
C10_GenericResponseIsFixed ==
    /\ \A p, q \in genericLog : p.response = q.response
    /\ \A p \in genericLog :
          /\ p.response.status_code = 500
          /\ p.response.content =
                [message |-> PyStr("Something went wrong. Please contact support.")]
    /\ run.handler = "generic" =>
          run.logCalls = <<"Generic Exception: " \o run.exc.text>>

\* two exceptions of different types and texts have been handled
C10_Witness ==
    \E p, q \in genericLog :
        /\ p.exc.type # q.exc.type
        /\ p.exc.text # q.exc.text
        /\ run.handler = "generic"
        /\ run.outcome = "returned"

\* C11: the validation handler's response is status 422 with the body
\* message 'Request Validation Error' and a detail that is the list the
\* error's errors() returned: the same items in the same order.
C11_ValidationResponseCarriesErrors ==
    (run.handler = "validation" /\ run.outcome = "returned") =>
        /\ run.response.status_code = 422
        /\ DOMAIN run.response.content = {"message", "detail"}
        /\ run.response.content.message = PyStr("Request Validation Error")
        /\ Len(run.response.content.detail) = Len(run.exc.errors)
        /\ \A i \in 1..Len(run.exc.errors) :
              run.response.content.detail[i] = run.exc.errors[i]

\* a validation error with two different field errors has been handled
C11_Witness ==
    /\ run.handler = "validation"
    /\ run.outcome = "returned"
    /\ Len(run.exc.errors) = 2
    /\ run.exc.errors[1] # run.exc.errors[2]
    /\ run.response.content.detail[1] =
          [field |-> "test_field", error |-> "required"]

\* C12: every handler invocation makes exactly one log call, and makes it
\* first; the response comes after it, and when the log call raises the
\* invocation ends raising, with no response.
C12_LoggedOnceBeforeResponse ==
    run.handler \in {"generic", "validation", "generated"} =>
        /\ Len(run.logCalls) = 1
        /\ Len(SelectSeq(run.events, LAMBDA e : e = "log")) = 1
        /\ run.events[1] = "log"
        /\ run.outcome \in {"returned", "raised"}
        /\ run.outcome = "returned" =>
              /\ run.events = <<"log", "response">>
              /\ run.response # NoResponse
        /\ run.outcome = "raised" =>
              /\ run.events = <<"log">>
              /\ run.response = NoResponse
        /\ run.logRaised <=> run.outcome = "raised"

\* the log call of the validation handler raised
C12_Witness ==
    /\ run.handler = "validation"
    /\ run.logRaised
    /\ run.outcome = "raised"
    /\ run.logCalls = <<"Request Validation Exception: 1 validation error">>
    /\ run.response = NoResponse

----------------------------------------------------------------------------
(* Properties of get_exception_handlers *)

\* the types named in the exceptions_list argument of the last call
Listed ==
    {gehArgs.exceptions_list.l[i] : i \in 1..Len(gehArgs.exceptions_list.l)}
\* the validation handler the base map is to hold
ChosenValidation ==
    IF gehArgs.custom_validation_handler = NoHandler
    THEN ValidationHandler ELSE gehArgs.custom_validation_handler

\* C5: whatever arguments are present, get_exception_handlers returns None.
C5_ReturnsNone ==
    gehResult # NotCalled => gehResult.t = "none"

\* a call with all three arguments, which assembled a table
C5_Witness ==
    /\ gehResult.t = "none"
    /\ Len(gehArgs.exceptions_list.l) > 0
    /\ gehArgs.custom_validation_handler = Custom("V")
    /\ DOMAIN gehArgs.exception_handlers.d = {"ValueError"}
    /\ Listed \cup {"ValueError"} \subseteq DOMAIN handlers

\* C6 as claimed: every entry of exception_handlers is in the table, and
\* the two built-in keys hold their defaults unless such an entry replaces
\* them.
C6_EveryOverridePresent ==
    gehResult # NotCalled =>
        LET given == gehArgs.exception_handlers.d
        IN  /\ \A k \in DOMAIN given :
                  k \in DOMAIN handlers /\ handlers[k] = given[k]
            /\ "RequestValidationError" \notin DOMAIN given =>
                  handlers["RequestValidationError"] = ChosenValidation
            /\ "Exception" \notin DOMAIN given =>
                  handlers["Exception"] = GenericHandler

\* C6, amended: the same for every type that is not also named in
\* exceptions_list (a type named there maps to its generated handler).
C6_OverridePresentUnlessListed ==
    gehResult # NotCalled =>
        LET given == gehArgs.exception_handlers.d
        IN  /\ \A k \in DOMAIN given \ Listed :
                  k \in DOMAIN handlers /\ handlers[k] = given[k]
            /\ "RequestValidationError" \notin DOMAIN given \cup Listed =>
                  handlers["RequestValidationError"] = ChosenValidation
            /\ "Exception" \notin DOMAIN given \cup Listed =>
                  handlers["Exception"] = GenericHandler

\* exception_handlers = {ValueError: H, Exception: H} with a custom
\* validation handler: H replaces the generic default
C6_Witness ==
    /\ gehResult # NotCalled
    /\ DOMAIN gehArgs.exception_handlers.d = {"ValueError", "Exception"}
    /\ gehArgs.custom_validation_handler = Custom("V")
    /\ handlers["ValueError"] = Custom("H")
    /\ handlers["Exception"] = Custom("H")
    /\ handlers["RequestValidationError"] = Custom("V")

\* C7 as claimed: a type in both exception_handlers and exceptions_list
\* maps to the caller's handler.
C7_OverrideBeatsGenerated ==
    gehResult # NotCalled =>
        \A k \in DOMAIN gehArgs.exception_handlers.d \cap Listed :
            handlers[k] = gehArgs.exception_handlers.d[k]

\* C7, amended: the generated handlers are applied last and win: every type
\* named in exceptions_list maps to the handler generated for it, also when
\* exception_handlers has an entry for that type.
C7_GeneratedBeatsOverride ==
    gehResult # NotCalled =>
        \A k \in Listed : handlers[k] = GeneratedFor(k)

\* CustomError is in both arguments
C7_Witness ==
    /\ gehResult # NotCalled
    /\ "CustomError" \in DOMAIN gehArgs.exception_handlers.d
    /\ "CustomError" \in Listed
    /\ gehArgs.exception_handlers.d["CustomError"] = Custom("H")
    /\ handlers["CustomError"] = GeneratedFor("CustomError")

----------------------------------------------------------------------------
(* Properties of configure_logger *)

\* the root handlers apart from those other code attached after the last
\* call had started
OwnHandlers ==
    SelectSeq(root.handlers,
              LAMBDA h : ~(h.type = "Foreign" /\ h.call >= ret.call))

\* C1: when one of a sequence of non-overlapping configure_logger calls has
\* returned, the root logger holds exactly that call's sinks: its file sink
\* iff ENABLE_FILE_LOG, then its console sink iff ENABLE_CONSOLE_LOG, and
\* nothing that was attached before the call.
C1_HandlersAreLastCallsSinks ==
    (AllIdle /\ ret.outcome = "returned") =>
        LET expected ==
                (IF ret.c.ENABLE_FILE_LOG
                 THEN <<"RotatingFileHandler">> ELSE <<>>)
                \o (IF ret.c.ENABLE_CONSOLE_LOG
                    THEN <<"StreamHandler">> ELSE <<>>)
        IN  /\ Len(OwnHandlers) = Len(expected)
            /\ \A i \in 1..Len(expected) :
                  /\ OwnHandlers[i].type = expected[i]
                  /\ OwnHandlers[i].call = ret.call

\* a second call with only the console enabled has returned, after a call
\* that had attached a file sink
C1_Witness ==
    /\ AllIdle
    /\ ret.outcome = "returned"
    /\ ret.call = 2
    /\ ~ret.c.ENABLE_FILE_LOG
    /\ ret.c.ENABLE_CONSOLE_LOG
    /\ dirs # {}
    /\ Len(root.handlers) = 1
    /\ root.handlers[1].type = "StreamHandler"
    /\ root.handlers[1].call = 2

\* the names in a list
Range(l) == {l[i] : i \in 1..Len(l)}

\* C15: when a configure_logger call has returned, every logger named in
\* its DEFER_LOG_MODULES or DEFER_ADDITIONAL_LOGS is at its DEFER_LOG_LEVEL,
\* whatever the root level, the order of the names and the levels earlier
\* calls (the same settings among them) had left.
C15_DeferredLoggersAtDeferLevel ==
    (AllIdle /\ ret.outcome = "returned") =>
        \A n \in Range(ret.c.DEFER_LOG_MODULES)
                  \cup Range(ret.c.DEFER_ADDITIONAL_LOGS) :
            loggerLevel[n] = IF ret.c.DEFER_LOG_LEVEL = "INFO" THEN 20 ELSE 40

\* a second call, naming the default modules in the other order and an
\* additional one, deferred to ERROR under a root level of INFO
C15_Witness ==
    /\ AllIdle
    /\ ret.outcome = "returned"
    /\ ret.call = 2
    /\ ret.c.DEFER_LOG_MODULES = <<"pymongo", "httpx">>
    /\ ret.c.DEFER_ADDITIONAL_LOGS = <<"custom">>
    /\ ret.c.DEFER_LOG_LEVEL = "ERROR"
    /\ root.level = 20
    /\ \A n \in LoggerNames : loggerLevel[n] = 40

\* C16: when a configure_logger call has returned, the root logger's level
\* is the number of the call's LOG_LEVEL name (DEBUG 10, INFO 20, WARNING
\* 30, ERROR 40, CRITICAL 50), whatever level was there before and whatever
\* the deferred level is.
C16_RootLevelIsNamedLevel ==
    (AllIdle /\ ret.outcome = "returned") =>
        /\ ret.c.LOG_LEVEL = "DEBUG" => root.level = 10
        /\ ret.c.LOG_LEVEL = "INFO" => root.level = 20
        /\ ret.c.LOG_LEVEL = "WARNING" => root.level = 30
        /\ ret.c.LOG_LEVEL = "ERROR" => root.level = 40
        /\ ret.c.LOG_LEVEL = "CRITICAL" => root.level = 50
        /\ ret.c.LOG_LEVEL \in LevelNames

\* a second call has set DEBUG, below the default level and the deferred one
C16_Witness ==
    /\ AllIdle
    /\ ret.outcome = "returned"
    /\ ret.call = 2
    /\ ret.c.LOG_LEVEL = "DEBUG"
    /\ root.level = 10
    /\ loggerLevel["httpx"] = 20

\* the handlers of the root logger that are file sinks
FileSinks(logger) ==
    {logger.handlers[i] : i \in {j \in 1..Len(logger.handlers) :
                                   logger.handlers[j].type = "RotatingFileHandler"}}

\* C17: a step attaches a file sink only with the logs directory in
\* existence (created by that step or there already); the directory is
\* created only by a call with file logging enabled, at its file entry;
\* and a call with file logging disabled passes that entry creating and
\* attaching nothing.
C17_DirectoryBeforeFileSink ==
    [][ /\ \A h \in FileSinks(root') \ FileSinks(root) :
              \E t \in Threads :
                  /\ pc[t] = "handler1"
                  /\ conf[t].c.ENABLE_FILE_LOG
                  /\ conf[t].c.LOGS_MODULE_PATH \in dirs'
                  /\ h.file = conf[t].c.LOGS_MODULE_PATH \o "/"
                                \o conf[t].c.project_name \o ".log"
        /\ dirs' # dirs =>
              \E t \in Threads :
                  /\ pc[t] = "handler1"
                  /\ conf[t].c.ENABLE_FILE_LOG
                  /\ dirs' = dirs \cup {conf[t].c.LOGS_MODULE_PATH}
        /\ \A t \in Threads :
              (pc[t] = "handler1" /\ pc'[t] # "handler1"
               /\ ~conf[t].c.ENABLE_FILE_LOG) =>
                  (dirs' = dirs /\ root' = root)
      ]_vars

\* a second call has attached its file sink, the logs directory existing
C17_Witness ==
    /\ AllIdle
    /\ ret.outcome = "returned"
    /\ ret.call = 2
    /\ ret.c.ENABLE_FILE_LOG
    /\ dirs = {"code/data/logs/my_service"}
    /\ \E h \in FileSinks(root) :
          /\ h.call = 2
          /\ h.file = "code/data/logs/my_service/my-service.log"

\* s occurs in text
Contains(text, s) ==
    \E i \in 1..(Len(text) - Len(s) + 1) :
        SubSeq(text, i, i + Len(s) - 1) = s

\* C18 as claimed: every sink configure_logger attached carries a
\* correlation-ID filter, and a formatter whose format has the
\* correlation_id field.
C18_SinksCarryCorrelationId ==
    (AllIdle /\ ret.outcome = "returned") =>
        \A i \in 1..Len(OwnHandlers) :
            /\ Len(OwnHandlers[i].filters) = 1
            /\ Contains(OwnHandlers[i].formatter.fmt, "correlation_id")

\* C19: when the logs directory cannot be created, the call ends there
\* with the error: it returns no logger, and attaches no sink at that
\* entry.  (A call passes its file entry with file logging enabled and
\* the directory still missing only when creating it failed.)
C19_MkdirFailurePropagates ==
    [][ \A t \in Threads :
            (/\ pc[t] = "handler1"
             /\ pc'[t] # "handler1"
             /\ conf[t].c.ENABLE_FILE_LOG
             /\ conf[t].c.LOGS_MODULE_PATH \notin dirs') =>
                /\ pc'[t] = "idle"
                /\ ret'.outcome = "raised"
                /\ ret'.call = conf[t].call
                /\ root' = root
      ]_vars

\* a call with both sinks enabled has ended with the error
C19_Witness ==
    /\ AllIdle
    /\ ret.outcome = "raised"
    /\ ret.c.ENABLE_FILE_LOG
    /\ ret.c.ENABLE_CONSOLE_LOG
    /\ dirs = {}
    /\ root.handlers = <<>>

\* the sinks a call's settings enable, and the sinks on the root logger
EnabledSinks(c) ==
    (IF c.ENABLE_FILE_LOG THEN 1 ELSE 0)
    + (IF c.ENABLE_CONSOLE_LOG THEN 1 ELSE 0)
AttachedSinks ==
    Cardinality({i \in 1..Len(root.handlers) :
                    root.handlers[i].type # "Foreign"})

\* C24: with calls free to overlap, the root logger is left with more
\* sinks than the call that returned last enables only when two calls
\* have been in progress at once; as long as the calls have come one
\* after the other it holds no more than that call's sinks.
C24_ExcessSinksOnlyAfterOverlap ==
    (AllIdle /\ ret.outcome = "returned"
     /\ AttachedSinks > EnabledSinks(ret.c)) => overlapped

\* two overlapping calls that enable the console alone have both returned
\* and the root logger holds the console sinks of both
C24_Witness ==
    /\ AllIdle
    /\ overlapped
    /\ ret.outcome = "returned"
    /\ calls = 2
    /\ dirs = {}
    /\ EnabledSinks(ret.c) = 1
    /\ Len(root.handlers) = 2
    /\ root.handlers[1].type = "StreamHandler"
    /\ root.handlers[2].type = "StreamHandler"
    /\ root.handlers[1].call # root.handlers[2].call

\* C26: the file sink of a call is at '<logs path>/<name>.log', the name
\* being the one the call was given, its hyphens kept, under the logs
\* path, which has underscores; it is capped at 100000000 bytes and keeps
\* 5 backups.
C26_FileSinkTarget ==
    \A h \in FileSinks(root) :
        /\ h.file = "code/data/logs/my_service/my-service.log"
        /\ \E c \in {ret.c} \cup {conf[t].c : t \in Threads} :
              h.file = c.LOGS_MODULE_PATH \o "/" \o c.project_name \o ".log"
        /\ h.maxBytes = 100000000
        /\ h.backupCount = 5

\* a call with file logging alone has returned
C26_Witness ==
    /\ AllIdle
    /\ ret.outcome = "returned"
    /\ ret.c.ENABLE_FILE_LOG
    /\ ~ret.c.ENABLE_CONSOLE_LOG
    /\ ret.c.project_name = "my-service"
    /\ Len(root.handlers) = 1
    /\ root.handlers[1].file = "code/data/logs/my_service/my-service.log"
    /\ root.handlers[1].maxBytes = 100000000

\* C27: when a call has ended with the directory error, the root level
\* is the one the call set, the deferred loggers are at the call's
\* deferred level, and the root logger has none of the handlers it had
\* before and no sink of the call, its console sink included even when
\* the console is enabled.
C27_NoRollbackOnFailure ==
    (AllIdle /\ ret.outcome = "raised") =>
        /\ ret.c.ENABLE_FILE_LOG
        /\ root.level = LevelValue(ret.c.LOG_LEVEL)
        /\ \A n \in Range(ret.c.DEFER_LOG_MODULES)
                      \cup Range(ret.c.DEFER_ADDITIONAL_LOGS) :
              loggerLevel[n] = LevelValue(ret.c.DEFER_LOG_LEVEL)
        /\ OwnHandlers = <<>>

\* a second call, with both sinks enabled and other levels than the first,
\* has ended with the error
C27_Witness ==
    /\ AllIdle
    /\ ret.outcome = "raised"
    /\ ret.call = 2
    /\ ret.c.ENABLE_CONSOLE_LOG
    /\ ret.c.LOG_LEVEL = "ERROR"
    /\ ret.c.DEFER_LOG_LEVEL = "ERROR"
    /\ root.level = 40
    /\ loggerLevel["httpx"] = 40
    /\ root.handlers = <<>>

\* C28: the step of a call that applies the deferred levels gives the
\* call's deferred level to the loggers its lists name and leaves every
\* other logger's level as it was; no other step changes a logger's
\* level.  So each logger is at the deferred level of the last call that
\* named it.
C28_DeferredLevelsOnlySet ==
    [][ \A n \in LoggerNames :
            loggerLevel'[n] # loggerLevel[n] =>
                \E t \in Threads :
                    /\ pc[t] = "defer"
                    /\ pc'[t] # "defer"
                    /\ n \in Range(conf[t].c.DEFER_LOG_MODULES)
                              \cup Range(conf[t].c.DEFER_ADDITIONAL_LOGS)
                    /\ loggerLevel'[n] = LevelValue(conf[t].c.DEFER_LOG_LEVEL)
      ]_vars

\* a second call, deferring to INFO without the additional logger, has
\* returned; that logger is still at the ERROR of the first call
C28_Witness ==
    /\ AllIdle
    /\ ret.outcome = "returned"
    /\ ret.call = 2
    /\ ret.c.DEFER_ADDITIONAL_LOGS = <<>>
    /\ ret.c.DEFER_LOG_LEVEL = "INFO"
    /\ loggerLevel["custom"] = 40
    /\ loggerLevel["httpx"] = 20
    /\ loggerLevel["pymongo"] = 20

----------------------------------------------------------------------------
(* Properties of the path configuration *)

\* the last _PathConf() was given both inputs and was built
BothSupplied ==
    /\ pathConf.outcome = "built"
    /\ ~pathConf.assigned
    /\ {"BASE_PATH", "MODULE_NAME"} \subseteq DOMAIN pathEnv

\* a base path as a path writes it: without a trailing separator
Stem(b) == IF EndsWith(b, "/") THEN SubSeq(b, 1, Len(b) - 1) ELSE b

\* n is m with every '-' replaced by '_', character by character
Underscored(m, n) ==
    /\ Len(n) = Len(m)
    /\ \A i \in 1..Len(m) :
          Char(n, i) = IF Char(m, i) = "-" THEN "_" ELSE Char(m, i)

\* C13: the derived logs path is the join of the base path, 'logs' and the
\* module name with every '-' replaced by '_'.  Its last segment has no
\* hyphen, the base path is stored as supplied, an empty module name
\* gives '<base>/logs' with nothing after it, and (as a join does) a
\* module name that starts with the separator stands alone.
C13_LogsPathIsJoin ==
    BothSupplied =>
        LET b == pathEnv["BASE_PATH"]
            m == pathEnv["MODULE_NAME"]
            p == pathConf.LOGS_MODULE_PATH.v
            stem == Stem(b) \o "/logs"
        IN  /\ pathConf.LOGS_MODULE_PATH.t = "str"
            /\ pathConf.BASE_PATH = Stem(b)
            /\ pathConf.MODULE_NAME = m
            /\ IF m = "" THEN p = stem
               ELSE IF StartsWith(m, "/") THEN Underscored(m, p)
               ELSE /\ Len(p) = Len(stem) + 1 + Len(m)
                    /\ SubSeq(p, 1, Len(stem) + 1) = stem \o "/"
                    /\ Underscored(m, SubSeq(p, Len(stem) + 2, Len(p)))
            /\ \A i \in 1..Len(p) :
                  (\A j \in i..Len(p) : Char(p, j) # "/") => Char(p, i) # "-"
            /\ ~EndsWith(p, "/")

\* base '/tmp/test' with module 'my-service'
C13_Witness ==
    /\ BothSupplied
    /\ pathEnv["BASE_PATH"] = "/tmp/test"
    /\ pathEnv["MODULE_NAME"] = "my-service"
    /\ pathConf.LOGS_MODULE_PATH = PyStr("/tmp/test/logs/my_service")
    /\ pathConf.BASE_PATH = "/tmp/test"

\* C14 as claimed: when BASE_PATH or MODULE_NAME is not supplied the
\* construction succeeds and the derivation uses the defaults 'code/data'
\* and '': only MODULE_NAME='' gives 'code/data/logs'.
C14_DefaultsUsedWhenNotSupplied ==
    (pathConf.outcome # "none"
     /\ ~({"BASE_PATH", "MODULE_NAME"} \subseteq DOMAIN pathEnv)) =>
        LET b == FieldOr(pathEnv, "BASE_PATH", "code/data")
            m == FieldOr(pathEnv, "MODULE_NAME", "")
        IN  /\ pathConf.outcome = "built"
            /\ pathConf.BASE_PATH = Stem(b)
            /\ pathConf.MODULE_NAME = m
            /\ pathConf.LOGS_MODULE_PATH.t = "str"
            /\ ("BASE_PATH" \notin DOMAIN pathEnv /\ m = "") =>
                  pathConf.LOGS_MODULE_PATH = PyStr("code/data/logs")

\* C25 as claimed: in every state of a path configuration the logs path
\* is the derivation from its current base path and module name, also
\* after either was assigned; and a logs path given as input is replaced
\* by the derived one.
C25_LogsPathFollowsFields ==
    pathConf.outcome = "built" =>
        pathConf.LOGS_MODULE_PATH =
            PyStr(Path(os_path_join(pathConf.BASE_PATH,
                <<"logs", replace(pathConf.MODULE_NAME, "-", "_")>>)))

\* C30 as claimed: the logs path lies under '<base_path>/logs' exactly
\* when the module name does not begin with the separator, and is the
\* normalized module name alone when it does.
Under(p, stem) ==
    \/ p = stem
    \/ Len(p) > Len(stem) /\ SubSeq(p, 1, Len(stem) + 1) = stem \o "/"
----------------------------------------------------------------------------
(* Properties of the response metadata *)

\* C20: a RequestMeta built without request_id has the correlation
\* identifier that was set when it was built, and None, without raising,
\* when none was set; a request_id or timestamp that was given, None
\* included, is stored as given, and a timestamp that was not given is the
\* instant of the construction.
C20_RequestMetaDefaults ==
    meta.outcome # "none" =>
        /\ meta.outcome = "built"
        /\ meta.given.request_id = Omitted =>
              /\ meta.at.ambient.t = "str" => meta.request_id = meta.at.ambient
              /\ meta.at.ambient.t \in {"unset", "none"} =>
                    meta.request_id = PyNone
        /\ meta.given.request_id # Omitted =>
              meta.request_id = meta.given.request_id
        /\ meta.given.timestamp # Omitted =>
              meta.timestamp = meta.given.timestamp
        /\ meta.given.timestamp = Omitted =>
              /\ meta.timestamp.t = "str"
              /\ meta.at.clock = 1 => meta.timestamp.v = "2023-12-25T10:30:01Z"

\* built with nothing given and no identifier set; request_id is None
C20_Witness ==
    /\ meta.outcome = "built"
    /\ meta.given = [request_id |-> Omitted, timestamp |-> Omitted]
    /\ meta.at.ambient = Unset
    /\ meta.request_id = PyNone
    /\ meta.timestamp.t = "str"

\* C21 as claimed: a failure envelope built with an error and no meta has
\* status 'failure' and a meta whose request_id is the correlation
\* identifier set when it was built (None when none was).
C21_FailureEnvelopeHasAmbientMeta ==
    (envelope.kind = "failure" /\ envelope.given.error # Omitted
     /\ envelope.given.meta = OmittedMeta) =>
        /\ envelope.status = "failure"
        /\ envelope.meta.t = "meta"
        /\ envelope.meta.m.request_id =
              IF envelope.at.ambient = Unset THEN PyNone
              ELSE envelope.at.ambient

\* C21, amended: a failure envelope built with an error and no meta has
\* status 'failure', the error it was given, and meta None, whatever
\* correlation identifier is set; its meta is a RequestMeta only when it
\* was given one.
C21_FailureEnvelopeMetaIsNone ==
    envelope.kind = "failure" =>
        /\ envelope.status = "failure"
        /\ envelope.given.meta = OmittedMeta => envelope.meta = NoneMeta
        /\ envelope.given.meta # OmittedMeta =>
              envelope.meta = envelope.given.meta
        /\ envelope.given.error # Omitted =>
              envelope.error = envelope.given.error

\* built with error 'VAL_001' and no meta while an identifier was set
C21_Witness ==
    /\ envelope.kind = "failure"
    /\ envelope.given.error = PyStr("VAL_001")
    /\ envelope.given.meta = OmittedMeta
    /\ envelope.at.ambient = PyStr("test-correlation-123")
    /\ envelope.error = PyStr("VAL_001")
    /\ envelope.meta = NoneMeta

\* C22: a step that sets, changes or resets the correlation identifier,
\* or in which time passes, changes neither the RequestMeta built last nor
\* the envelope built last; and building another RequestMeta leaves the
\* envelope, with the meta it holds, as it was.
C22_MetaIsSnapshot ==
    [][ /\ (ambient' # ambient \/ clock' # clock) =>
              (meta' = meta /\ envelope' = envelope)
        /\ meta' # meta => envelope' = envelope
      ]_vars

\* an envelope holds a meta built under one identifier, the meta built
\* last was built under another, and the identifier has been reset since
C22_Witness ==
    /\ envelope.kind = "success"
    /\ envelope.meta.t = "meta"
    /\ envelope.meta.m.given.request_id = Omitted
    /\ envelope.meta.m.request_id = PyStr("test-correlation-123")
    /\ meta.given = [request_id |-> Omitted, timestamp |-> Omitted]
    /\ meta.request_id = PyStr("cid-2")
    /\ meta.timestamp = PyStr("2023-12-25T10:30:00Z")
    /\ ambient = Unset
    /\ clock = 1

====
